---- MODULE Spec2Model ----
(***************************************************************************)
(* Anime music quiz backend (backend/app): rooms, players, rounds,         *)
(* guesses and skip votes.                                                 *)
(*                                                                         *)
(* The handlers of main.py are plain `def` endpoints, so FastAPI runs them *)
(* on worker threads, each with its own Session (database.get_session).    *)
(* A step of the model is one SQL statement (a SELECT, or the flush and    *)
(* COMMIT of session.commit()) of one request; the statements of different *)
(* requests interleave freely.  Reads are not snapshot-isolated: every     *)
(* SELECT sees the latest committed rows.  A Session keeps the rows it     *)
(* loaded in its identity map: attribute reads come from that cache until  *)
(* a commit of the same session expires it, and the flush writes only the  *)
(* columns whose value differs from the loaded one.                        *)
(*                                                                         *)
(* Strings are sequences of one-character strings.  Identifiers are the    *)
(* positions of the rows in their tables (autoincrement keys, no row is    *)
(* ever deleted); 0 stands for NULL / None.  The skip_votes table, whose   *)
(* keys nothing reads, is the bag of its rows.  Timestamps are left out    *)
(* except for Round.ended_at, kept as the boolean `ended`; so is the text  *)
(* of a stored guess, which nothing reads back.                            *)
(*                                                                         *)
(* A field of a request's payload is drawn at the step that first uses it. *)
(***************************************************************************)
EXTENDS Integers, Sequences, FiniteSets, Bags, TLC

\* ------------------------------------------------------------------------
\* Bounds of the model
\* ------------------------------------------------------------------------
NProcs == 2
MaxRooms == 1
MaxPlayerRows == 2
MaxRounds == 1
MaxGuesses == 1
RaceMaxGuesses == 2
SeriesMaxPlayerRows == 1
SeriesMaxRounds == 2
SeriesMaxGuesses == 2
RoomsMaxRooms == 2
FrameMaxPlayerRows == 3
PlayMaxRounds == 2
PlayMaxGuesses == 3
JudgeMaxLen == 3
SeatsMaxPlayers == 2

Procs == 1..NProcs
NoId == 0

\* ------------------------------------------------------------------------
\* Strings
\* ------------------------------------------------------------------------
\* the whitespace of str.strip() and of \s among the characters used here
IsSpace(c) == c \in {" ", "\t"}

LowerChar(c) ==
    CASE c = "A" -> "a" [] c = "B" -> "b" [] c = "C" -> "c" [] c = "D" -> "d"
      [] c = "E" -> "e" [] c = "X" -> "x" [] OTHER -> c

UpperChar(c) ==
    CASE c = "a" -> "A" [] c = "b" -> "B" [] c = "c" -> "C" [] c = "d" -> "D"
      [] c = "e" -> "E" [] c = "x" -> "X" [] OTHER -> c

Lower(s) == [i \in DOMAIN s |-> LowerChar(s[i])]
Upper(s) == [i \in DOMAIN s |-> UpperChar(s[i])]

RECURSIVE LStrip(_)
LStrip(s) == IF s # <<>> /\ IsSpace(Head(s)) THEN LStrip(Tail(s)) ELSE s

RECURSIVE RStrip(_)
RStrip(s) ==
    IF s # <<>> /\ IsSpace(s[Len(s)]) THEN RStrip(SubSeq(s, 1, Len(s) - 1)) ELSE s

Strip(s) == RStrip(LStrip(s))

\* ------------------------------------------------------------------------
\* Tables (models.py) and the per-request sessions
\* ------------------------------------------------------------------------
VARIABLES songs, rooms, players, rounds, guesses, skip_votes, sess

vars == <<songs, rooms, players, rounds, guesses, skip_votes, sess>>
tables == <<songs, rooms, players, rounds, guesses, skip_votes>>

Song(anime_title, status) == [anime_title |-> anime_title, status |-> status]

Room(code, host_name, target_score, max_players, round_duration_seconds) ==
    [code |-> code, host_name |-> host_name, target_score |-> target_score,
     max_players |-> max_players,
     round_duration_seconds |-> round_duration_seconds,
     status |-> "waiting", winning_player_id |-> NoId]

Player(room_id, nickname, is_host) ==
    [room_id |-> room_id, nickname |-> nickname, score |-> 0, is_host |-> is_host]

Round(room_id, song_id, duration_seconds) ==
    [room_id |-> room_id, song_id |-> song_id, status |-> "playing",
     ended |-> FALSE, duration_seconds |-> duration_seconds,
     winning_player_id |-> NoId]

Guess(round_id, player_id, similarity, is_correct) ==
    [round_id |-> round_id, player_id |-> player_id,
     similarity |-> similarity, is_correct |-> is_correct]

SkipVote(round_id, player_id) == [round_id |-> round_id, player_id |-> player_id]

\* The song catalog: curated by the admin endpoints, read-only for the game.
Catalog ==
    << Song(<<"A", "b">>, "approved"),
       Song(<<"C", "d">>, "approved"),
       Song(<<"x">>, "pending") >>

\* A request that is not running: the worker thread is free.
Idle ==
    [op |-> "idle", pc |-> "idle",
     code |-> <<>>, nickname |-> <<>>, guess_text |-> <<>>,
     room_id |-> NoId, round_id |-> NoId, player_id |-> NoId, song_id |-> NoId,
     room_status |-> "", room_winner |-> NoId,
     round_status |-> "", round_winner |-> NoId,
     player_score |-> 0, expired |-> FALSE,
     skip_votes_count |-> 0, total_players |-> 0]

Init ==
    /\ songs = Catalog
    /\ rooms = <<>>
    /\ players = <<>>
    /\ rounds = <<>>
    /\ guesses = <<>>
    /\ skip_votes = EmptyBag
    /\ sess = [p \in Procs |-> Idle]

Running(op) == {p \in Procs : sess[p].op = op}

\* The request of p ends (response sent or HTTPException raised); its
\* session is closed and the worker thread is free again.
Finish(p) == sess' = [sess EXCEPT ![p] = Idle]

Goto(p, pc) == sess' = [sess EXCEPT ![p].pc = pc]

\* ------------------------------------------------------------------------
\* Queries
\* ------------------------------------------------------------------------
RoomIdsByCode(code) == {i \in DOMAIN rooms : rooms[i].code = code}

\* select(Room).where(Room.code == code.upper()).first(); NoId for 404
_get_room_or_404(code) ==
    IF RoomIdsByCode(Upper(code)) = {} THEN NoId
    ELSE CHOOSE i \in RoomIdsByCode(Upper(code)) :
            \A j \in RoomIdsByCode(Upper(code)) : i <= j

PlayerIdsOf(room_id) == {i \in DOMAIN players : players[i].room_id = room_id}

PlayerCount(room_id) == Cardinality(PlayerIdsOf(room_id))

PlayingRoundsOf(room_id) ==
    {i \in DOMAIN rounds : rounds[i].room_id = room_id /\ rounds[i].status = "playing"}

\* select(func.count()).select_from(SkipVote).where(round_id == ...)
SkipVoteCount(round_id) ==
    BagCardinality([v \in {x \in BagToSet(skip_votes) : x.round_id = round_id}
                      |-> CopiesIn(v, skip_votes)])

\* ------------------------------------------------------------------------
\* utils.py: compute_similarity
\* ------------------------------------------------------------------------
\* re.sub(r"\s+", " ", value): every run of whitespace becomes one space
RECURSIVE CollapseSpaces(_)
CollapseSpaces(s) ==
    IF s = <<>> THEN <<>>
    ELSE IF IsSpace(Head(s))
         THEN <<" ">> \o CollapseSpaces(LStrip(s))
         ELSE <<Head(s)>> \o CollapseSpaces(Tail(s))

_normalize_string(value) == Lower(Strip(CollapseSpaces(value)))

SetMax(S) == CHOOSE x \in S : \A y \in S : y <= x
SetMin(S) == CHOOSE x \in S : \A y \in S : x <= y

\* length of the common run of a from i and b from j, inside a[..ahi], b[..bhi]
RunLen(a, b, i, j, ahi, bhi) ==
    SetMax({k \in 0..SetMin({ahi - i + 1, bhi - j + 1}) :
               \A t \in 0..(k - 1) : a[i + t] = b[j + t]})

\* difflib.SequenceMatcher.find_longest_match without junk: the longest
\* block, the earliest in a among the longest, the earliest in b among those
find_longest_match(a, b, alo, ahi, blo, bhi) ==
    LET size == SetMax({RunLen(a, b, i, j, ahi, bhi) : i \in alo..ahi, j \in blo..bhi})
        i0 == SetMin({i \in alo..ahi :
                        \E j \in blo..bhi : RunLen(a, b, i, j, ahi, bhi) = size})
        j0 == SetMin({j \in blo..bhi : RunLen(a, b, i0, j, ahi, bhi) = size})
    IN  [i |-> i0, j |-> j0, size |-> size]

\* difflib.SequenceMatcher.get_matching_blocks: total size of the blocks
RECURSIVE MatchingSize(_, _, _, _, _, _)
MatchingSize(a, b, alo, ahi, blo, bhi) ==
    IF alo > ahi \/ blo > bhi THEN 0
    ELSE LET m == find_longest_match(a, b, alo, ahi, blo, bhi)
         IN  IF m.size = 0 THEN 0
             ELSE m.size
                  + MatchingSize(a, b, alo, m.i - 1, blo, m.j - 1)
                  + MatchingSize(a, b, m.i + m.size, ahi, m.j + m.size, bhi)

\* SequenceMatcher.ratio() = 2.0 * matches / (len(a) + len(b)), kept as the
\* fraction <<numerator, denominator>>; 0.0 is <<0, 1>>
compute_similarity(answer, guess) ==
    LET normalized_answer == _normalize_string(answer)
        normalized_guess == _normalize_string(guess)
    IN  IF normalized_answer = <<>> \/ normalized_guess = <<>> THEN <<0, 1>>
        ELSE << 2 * MatchingSize(normalized_answer, normalized_guess,
                                 1, Len(normalized_answer), 1, Len(normalized_guess)),
                Len(normalized_answer) + Len(normalized_guess) >>

\* similarity >= 0.8, the threshold being ThresholdNum / ThresholdDen
ThresholdNum == 4
ThresholdDen == 5

\* similarity > 0.8: the threshold itself does not count
IsCorrectAbove(similarity) == similarity[1] * ThresholdDen > ThresholdNum * similarity[2]

IsCorrect(similarity) == similarity[1] * ThresholdDen >= ThresholdNum * similarity[2]

\* ------------------------------------------------------------------------
\* Request payloads
\* ------------------------------------------------------------------------
HostNames == {<<"a">>}
RequestedCodes == {<<>>, <<"a", "b", "c", "d", "e">>}
GeneratedCodes == {<<"A", "B", "C", "D", "E">>}
PathCodes == {<<"a", "b", "C", "D", "E">>, <<"x", "x", "x">>}
TargetScores == {1, 2}
MaxPlayersInputs == {9}
RoomDurations == {120}
Nicknames == {<<"A">>, <<"b">>, <<"c", " ">>}
GuessTexts == {<<" ", "a", "B">>, <<"x">>}
RoundDurations == {0, 120}
SongIdInputs == {0, 1, 3}
\* the identifiers a request may name: those of the rows, and one of no row
RoundIdInputs == 1..(Len(rounds) + 1)
PlayerIdInputs == 1..(Len(players) + 1)
MaxPlayersCap == 8

\* What the requests of a specification may ask for: the sizes the tables
\* may grow to and the payloads to draw from.
Workload ==
    [max_rooms |-> MaxRooms, max_player_rows |-> MaxPlayerRows,
     max_rounds |-> MaxRounds, max_guesses |-> MaxGuesses,
     target_scores |-> TargetScores, max_players |-> MaxPlayersInputs,
     requested_codes |-> RequestedCodes, generated_codes |-> GeneratedCodes,
     path_codes |-> PathCodes, song_ids |-> SongIdInputs,
     nicknames |-> Nicknames, guess_texts |-> GuessTexts]

RaceWorkload == [Workload EXCEPT !.max_guesses = RaceMaxGuesses]

SeriesWorkload ==
    [Workload EXCEPT !.max_player_rows = SeriesMaxPlayerRows,
                     !.max_rounds = SeriesMaxRounds,
                     !.max_guesses = SeriesMaxGuesses,
                     !.target_scores = {1}]

\* two rooms: the codes a request may ask for, be given, or address
RoomsRequestedCodes == {<<>>, <<"a", "b", "c", "d", "e">>, <<"x", "x", "x">>}
RoomsGeneratedCodes == {<<"A", "B", "C", "D", "E">>, <<"X", "X", "X">>}

RoomsWorkload ==
    [Workload EXCEPT !.max_rooms = RoomsMaxRooms,
                     !.target_scores = {1},
                     !.requested_codes = RoomsRequestedCodes,
                     !.generated_codes = RoomsGeneratedCodes,
                     !.song_ids = {1}]

\* a host alone, rounds with auto-selected songs
FrameRequestedCodes == {<<"a","b","c","d","e">>, <<"x","x","x">>}

FrameNicknames == {<<"b">>}

FrameWorkload ==
    [RoomsWorkload EXCEPT !.max_player_rows = FrameMaxPlayerRows,
                          !.requested_codes = FrameRequestedCodes,
                          !.nicknames = FrameNicknames]

\* the texts of at most JudgeMaxLen characters, upper and lower case, space
\* and tab
JudgeChars == {"a", "B", " ", "\t"}
JudgeTexts == UNION {[1..k -> JudgeChars] : k \in 0..JudgeMaxLen}

\* 195: an anime_title is stored stripped; schemas.py 13 sets no least length
JudgeTitles == {t \in JudgeTexts : Strip(t) = t}

\* schemas.py 141: guess_text has min_length=1
JudgeGuessTexts == JudgeTexts \ {<<>>}

JudgeWorkload ==
    [Workload EXCEPT !.target_scores = {1}, !.song_ids = {1},
                     !.guess_texts = JudgeGuessTexts]

\* a room of SeatsMaxPlayers seats: its host and one free seat
SeatsWorkload ==
    [Workload EXCEPT !.max_player_rows = FrameMaxPlayerRows,
                     !.max_players = {SeatsMaxPlayers},
                     !.target_scores = {1}]

PlayWorkload ==
    [Workload EXCEPT !.max_player_rows = SeriesMaxPlayerRows,
                     !.max_rounds = PlayMaxRounds,
                     !.max_guesses = PlayMaxGuesses,
                     !.target_scores = {1},
                     !.song_ids = {NoId}]

Min(x, y) == IF x <= y THEN x ELSE y

\* ------------------------------------------------------------------------
\* create_room (main.py 283-313)
\* ------------------------------------------------------------------------
\* 285: the requested code, or _generate_room_code: a random code that no
\* room has at the time of its SELECT (96-102)
CreateRoomBegin(p, w) ==
    /\ sess[p].op = "idle"
    /\ Len(rooms) + Cardinality(Running("create_room")) < w.max_rooms
    /\ Len(players) + Cardinality(Running("create_room"))
         + Cardinality(Running("join_room")) < w.max_player_rows
    /\ \E code \in w.requested_codes :
          \E c \in (IF code # <<>> THEN {code}
                    ELSE {g \in w.generated_codes : RoomIdsByCode(g) = {}}) :
             sess' = [sess EXCEPT ![p] =
                        [Idle EXCEPT !.op = "create_room", !.pc = "check_code",
                                     !.code = Upper(c)]]
    /\ UNCHANGED tables

\* 286-288: "Room code already in use"
CreateRoomCheck(p) ==
    /\ sess[p].op = "create_room" /\ sess[p].pc = "check_code"
    /\ IF RoomIdsByCode(sess[p].code) # {} THEN Finish(p) ELSE Goto(p, "insert_room")
    /\ UNCHANGED tables

\* Room.code declared without unique=True: any INSERT goes through
RoomCodeNotConstrained(code) == TRUE

\* Room.code is unique=True (models.py 34): the INSERT of a taken code fails
RoomCodeUnique(code) == RoomIdsByCode(code) = {}

\* 290-300: INSERT the room and commit; an IntegrityError ends the request
CreateRoomInsert(p, w) ==
    /\ sess[p].op = "create_room" /\ sess[p].pc = "insert_room"
    /\ IF RoomCodeUnique(sess[p].code)
       THEN \E host_name \in HostNames, target_score \in w.target_scores,
               max_players \in w.max_players, duration \in RoomDurations :
               /\ rooms' = Append(rooms,
                      Room(sess[p].code, Strip(host_name), target_score,
                           Min(max_players, MaxPlayersCap), duration))
               /\ sess' = [sess EXCEPT ![p].pc = "insert_host",
                                       ![p].room_id = Len(rooms) + 1]
       ELSE /\ Finish(p)
            /\ UNCHANGED rooms
    /\ UNCHANGED <<songs, players, rounds, guesses, skip_votes>>

\* uq_room_nickname (models.py 49): UNIQUE (room_id, nickname), exact match
NicknameUnique(room_id, nickname) ==
    \A i \in PlayerIdsOf(room_id) : players[i].nickname # nickname

\* 302-313: INSERT the host player and commit; the refreshes that follow
\* only feed the response
CreateRoomHost(p) ==
    /\ sess[p].op = "create_room" /\ sess[p].pc = "insert_host"
    /\ IF NicknameUnique(sess[p].room_id, rooms[sess[p].room_id].host_name)
       THEN players' = Append(players,
                Player(sess[p].room_id, rooms[sess[p].room_id].host_name, TRUE))
       ELSE UNCHANGED players
    /\ Finish(p)
    /\ UNCHANGED <<songs, rooms, rounds, guesses, skip_votes>>

\* ------------------------------------------------------------------------
\* join_room (main.py 322-347)
\* ------------------------------------------------------------------------
\* 324-326: the room by its code; 404, or 400 "Room has already finished"
JoinRoomBegin(p, w) ==
    /\ sess[p].op = "idle"
    /\ Len(players) + Cardinality(Running("create_room"))
         + Cardinality(Running("join_room")) < w.max_player_rows
    /\ \E code \in w.path_codes :
          LET room_id == _get_room_or_404(code) IN
          IF room_id = NoId \/ rooms[room_id].status = "finished"
          THEN UNCHANGED sess
          ELSE sess' = [sess EXCEPT ![p] =
                          [Idle EXCEPT !.op = "join_room", !.pc = "check_players",
                                       !.room_id = room_id]]
    /\ UNCHANGED tables

\* 328-334: "Room is full", "Nickname already taken"
JoinAllowed(room_id, nickname) ==
    /\ PlayerCount(room_id) < rooms[room_id].max_players
    /\ \A i \in PlayerIdsOf(room_id) :
          Lower(players[i].nickname) # Lower(Strip(nickname))

JoinRoomCheck(p, w) ==
    /\ sess[p].op = "join_room" /\ sess[p].pc = "check_players"
    /\ \E nickname \in w.nicknames :
          IF JoinAllowed(sess[p].room_id, nickname)
          THEN sess' = [sess EXCEPT ![p].pc = "insert_player",
                                    ![p].nickname = Strip(nickname)]
          ELSE Finish(p)
    /\ UNCHANGED tables

\* 336-347: INSERT the player and commit
JoinRoomInsert(p) ==
    /\ sess[p].op = "join_room" /\ sess[p].pc = "insert_player"
    /\ IF NicknameUnique(sess[p].room_id, sess[p].nickname)
       THEN players' = Append(players,
                Player(sess[p].room_id, sess[p].nickname, FALSE))
       ELSE UNCHANGED players
    /\ Finish(p)
    /\ UNCHANGED <<songs, rooms, rounds, guesses, skip_votes>>

\* ------------------------------------------------------------------------
\* start_round (main.py 355-403)
\* ------------------------------------------------------------------------
\* 361: the room by its code (404 if absent); its row stays in the session
StartRoundBegin(p, w) ==
    /\ sess[p].op = "idle"
    /\ Len(rounds) + Cardinality(Running("start_round")) < w.max_rounds
    /\ \E code \in w.path_codes :
          LET room_id == _get_room_or_404(code) IN
          IF room_id = NoId
          THEN UNCHANGED sess
          ELSE sess' = [sess EXCEPT ![p] =
                          [Idle EXCEPT !.op = "start_round", !.pc = "active_round",
                                       !.room_id = room_id,
                                       !.room_status = rooms[room_id].status]]
    /\ UNCHANGED tables

\* 112-115: is there a round of the room with status "playing"
_get_active_round(room_id) == PlayingRoundsOf(room_id) # {}

\* 362-364: "A round is already in progress"
StartRoundActive(p) ==
    /\ sess[p].op = "start_round" /\ sess[p].pc = "active_round"
    /\ IF _get_active_round(sess[p].room_id) THEN Finish(p) ELSE Goto(p, "select_song")
    /\ UNCHANGED tables

ApprovedSongs == {i \in DOMAIN songs : songs[i].status = "approved"}

UsedSongIds(room_id) ==
    {rounds[i].song_id : i \in {j \in DOMAIN rounds : rounds[j].room_id = room_id}}

\* 378-386: the approved songs not yet used in the room, or all approved
\* songs when every one was used; random.choice takes any of them
SelectableSongs(room_id) ==
    IF ApprovedSongs \ UsedSongIds(room_id) # {}
    THEN ApprovedSongs \ UsedSongIds(room_id)
    ELSE ApprovedSongs

\* 372-386: the songs the request may play; none means a 400
SongChoices(room_id, song_id) ==
    IF song_id # NoId
    THEN {i \in DOMAIN songs : i = song_id /\ songs[i].status = "approved"}
    ELSE SelectableSongs(room_id)

\* 366-386: "No players in room", "Song is not available", "No approved
\* songs available"; the player count only grows, so counting it here, with
\* the SELECT of the used songs, loses no behaviour
StartRoundSong(p, w) ==
    /\ sess[p].op = "start_round" /\ sess[p].pc = "select_song"
    /\ \E song_id \in w.song_ids :
          IF PlayerCount(sess[p].room_id) = 0
             \/ SongChoices(sess[p].room_id, song_id) = {}
          THEN Finish(p)
          ELSE \E song \in SongChoices(sess[p].room_id, song_id) :
                  sess' = [sess EXCEPT ![p].pc = "insert_round", ![p].song_id = song]
    /\ UNCHANGED tables

\* 388: payload.duration_seconds or room.round_duration_seconds
RoundDuration(room_id, duration) ==
    IF duration # 0 THEN duration ELSE rooms[room_id].round_duration_seconds

\* 389-399: INSERT the round; room.status = "in_progress" is written only
\* when it differs from the status the session loaded at 361
StartRoundCommit(p) ==
    /\ sess[p].op = "start_round" /\ sess[p].pc = "insert_round"
    /\ \E duration \in RoundDurations :
          rounds' = Append(rounds,
              Round(sess[p].room_id, sess[p].song_id,
                    RoundDuration(sess[p].room_id, duration)))
    /\ rooms' = IF sess[p].room_status # "in_progress"
                THEN [rooms EXCEPT ![sess[p].room_id].status = "in_progress"]
                ELSE rooms
    /\ sess' = [sess EXCEPT ![p] =
                  [Idle EXCEPT !.op = "start_round", !.pc = "respond",
                               !.room_id = sess[p].room_id,
                               !.round_id = Len(rounds) + 1]]
    /\ UNCHANGED <<songs, players, guesses, skip_votes>>

\* the answer is shown whatever the request and the round
RevealAlways(reveal_answer, round_status) == TRUE

\* 156: the answer is shown on request or when the round, as the session
\* holds it, is over
RevealSolution(reveal_answer, round_status) ==
    reveal_answer \/ round_status # "playing"

\* 135-178 _build_round_state: the response of start_round and
\* get_current_round, from the round as the session holds it (its status
\* and winner; the other columns never change) and two counts; no
\* anime_title is <<>>
RoundState(round_id, round_status, round_winner, reveal_answer) ==
    [id |-> round_id,
     status |-> round_status,
     winning_player_id |-> round_winner,
     duration_seconds |-> rounds[round_id].duration_seconds,
     song_id |-> rounds[round_id].song_id,
     anime_title |-> IF RevealSolution(reveal_answer, round_status)
                     THEN songs[rounds[round_id].song_id].anime_title
                     ELSE <<>>,
     skip_votes |-> SkipVoteCount(round_id),
     total_players |-> PlayerCount(rounds[round_id].room_id)]

\* 400-403: the round state of the round as refreshed at 400
StartRoundResponse(p, reveal_answer) ==
    RoundState(sess[p].round_id, rounds[sess[p].round_id].status,
               rounds[sess[p].round_id].winning_player_id, reveal_answer)

\* 400-403: refresh the round and the room, answer with the round state
StartRoundRespond(p) ==
    /\ sess[p].op = "start_round" /\ sess[p].pc = "respond"
    /\ Finish(p)
    /\ UNCHANGED tables

\* ------------------------------------------------------------------------
\* get_current_round (main.py 406-416)
\* ------------------------------------------------------------------------
\* 412: the room by its code (404 if absent)
GetCurrentRoundBegin(p, w) ==
    /\ sess[p].op = "idle"
    /\ \E code \in w.path_codes :
          LET room_id == _get_room_or_404(code) IN
          IF room_id = NoId
          THEN UNCHANGED sess
          ELSE sess' = [sess EXCEPT ![p] =
                          [Idle EXCEPT !.op = "get_current_round",
                                       !.pc = "active_round",
                                       !.room_id = room_id]]
    /\ UNCHANGED tables

\* 413-415: the playing round of the room that started last, "No active
\* round" if there is none.  started_at is set when the Round object is
\* built (389), not when it is inserted, so of several playing rounds any
\* may be the one that started last.
GetCurrentRoundActive(p) ==
    /\ sess[p].op = "get_current_round" /\ sess[p].pc = "active_round"
    /\ IF _get_active_round(sess[p].room_id)
       THEN \E round_id \in PlayingRoundsOf(sess[p].room_id) :
               sess' = [sess EXCEPT
                   ![p].pc = "respond",
                   ![p].round_id = round_id,
                   ![p].round_status = rounds[round_id].status,
                   ![p].round_winner = rounds[round_id].winning_player_id]
       ELSE Finish(p)
    /\ UNCHANGED tables

\* 416: the round state of the round as loaded at 413
CurrentRoundResponse(p, reveal_answer) ==
    RoundState(sess[p].round_id, sess[p].round_status, sess[p].round_winner,
               reveal_answer)

\* 416: the song and the two counts are read, the response is sent
GetCurrentRoundRespond(p) ==
    /\ sess[p].op = "get_current_round" /\ sess[p].pc = "respond"
    /\ Finish(p)
    /\ UNCHANGED tables

\* ------------------------------------------------------------------------
\* submit_guess (main.py 419-483)
\* ------------------------------------------------------------------------
\* 426: the room by its code (404 if absent); its row stays in the session
SubmitGuessBegin(p, w) ==
    /\ sess[p].op = "idle"
    /\ Len(guesses) + Cardinality(Running("submit_guess")) < w.max_guesses
    /\ \E code \in w.path_codes :
          LET room_id == _get_room_or_404(code) IN
          IF room_id = NoId
          THEN UNCHANGED sess
          ELSE sess' = [sess EXCEPT ![p] =
                          [Idle EXCEPT !.op = "submit_guess", !.pc = "load_round",
                                       !.room_id = room_id,
                                       !.room_status = rooms[room_id].status,
                                       !.room_winner = rooms[room_id].winning_player_id]]
    /\ UNCHANGED tables

\* the round exists, whatever its room
RoundOfAnyRoom(round_id, room_id) == round_id \in DOMAIN rounds

\* 428, 495: the round exists and is a round of the room
RoundFound(round_id, room_id) ==
    round_id \in DOMAIN rounds /\ rounds[round_id].room_id = room_id

\* 434, 499: the player exists and is a player of the room
PlayerFound(player_id, room_id) ==
    player_id \in DOMAIN players /\ players[player_id].room_id = room_id

\* 430: the round takes guesses
AcceptsGuesses(round_id) == rounds[round_id].status = "playing"

\* 428-431: the detail of the error that the round named raises, "" if it
\* raises none
GuessRoundError(round_id, room_id) ==
    IF ~RoundFound(round_id, room_id) THEN "Round not found"
    ELSE IF ~AcceptsGuesses(round_id) THEN "Round is not accepting guesses"
    ELSE ""

\* 427-431: "Round not found", "Round is not accepting guesses"
SubmitGuessRound(p) ==
    /\ sess[p].op = "submit_guess" /\ sess[p].pc = "load_round"
    /\ \E round_id \in RoundIdInputs :
          IF GuessRoundError(round_id, sess[p].room_id) = ""
          THEN sess' = [sess EXCEPT
                   ![p].pc = "load_player",
                   ![p].round_id = round_id,
                   ![p].round_status = rounds[round_id].status,
                   ![p].round_winner = rounds[round_id].winning_player_id]
          ELSE Finish(p)
    /\ UNCHANGED tables

\* 433-439: "Player not found in this room"; the song is read-only
SubmitGuessPlayer(p) ==
    /\ sess[p].op = "submit_guess" /\ sess[p].pc = "load_player"
    /\ \E player_id \in PlayerIdInputs :
          IF PlayerFound(player_id, sess[p].room_id)
          THEN sess' = [sess EXCEPT
                   ![p].pc = "commit",
                   ![p].player_id = player_id,
                   ![p].player_score = players[player_id].score]
          ELSE Finish(p)
    /\ UNCHANGED tables

\* 441: the similarity of the guess to the answer of the round's song
GuessSimilarity(round_id, guess_text) ==
    compute_similarity(songs[rounds[round_id].song_id].anime_title, guess_text)

\* 453: is_correct and round_obj.winning_player_id is None, on the round as
\* the session loaded it at 427
WinsRound(is_correct, round_winner) == is_correct /\ round_winner = NoId

\* 459: player.score >= room.target_score
ReachesTarget(score, target_score) == score >= target_score

\* 457: player.score += 1 on the score the session loaded at 433
NewScore(player_score) == player_score + 1

\* 454-466: the UPDATEs of a winning guess, computed from the rows the
\* session loaded; a column is written when its value differs from the
\* loaded one
WinUpdates(p) ==
    LET s == sess[p]
        new_status == IF ReachesTarget(NewScore(s.player_score),
                                       rooms[s.room_id].target_score)
                      THEN "finished" ELSE "waiting"
    IN
    /\ rounds' = [rounds EXCEPT ![s.round_id].status = "completed",
                                ![s.round_id].winning_player_id = s.player_id,
                                ![s.round_id].ended = TRUE]
    /\ players' = [players EXCEPT ![s.player_id].score = NewScore(s.player_score)]
    /\ rooms' = [rooms EXCEPT
         ![s.room_id].status =
             IF new_status # s.room_status THEN new_status ELSE @,
         ![s.room_id].winning_player_id =
             IF new_status = "finished" /\ s.player_id # s.room_winner
             THEN s.player_id ELSE @]

\* session.add(guess) only for a guess that is correct
InsertCorrectGuess(guess) == IF guess.is_correct THEN Append(guesses, guess) ELSE guesses

\* 444-451, 468: session.add(guess), whatever its verdict, and the commit
InsertGuess(guess) == Append(guesses, guess)

\* 444-468 with the guess text given: INSERT the guess and, on a win, the
\* UPDATEs, in one commit
SubmitGuessCommitText(p, guess_text) ==
    LET s == sess[p]
        similarity == GuessSimilarity(s.round_id, guess_text)
        is_correct == IsCorrect(similarity)
    IN
    /\ s.op = "submit_guess" /\ s.pc = "commit"
    /\ guesses' = InsertGuess(Guess(s.round_id, s.player_id, similarity, is_correct))
    /\ IF WinsRound(is_correct, s.round_winner)
       THEN WinUpdates(p)
       ELSE UNCHANGED <<rounds, players, rooms>>
    /\ sess' = [sess EXCEPT ![p] =
                  [Idle EXCEPT !.op = "submit_guess", !.pc = "respond",
                               !.room_id = s.room_id, !.round_id = s.round_id,
                               !.player_id = s.player_id,
                               !.guess_text = guess_text]]
    /\ UNCHANGED <<songs, skip_votes>>

SubmitGuessCommit(p, w) ==
    \E guess_text \in w.guess_texts : SubmitGuessCommitText(p, guess_text)

\* 474-483: the response, from the rows as refreshed at 469-472
GuessResponse(p) ==
    [is_correct |-> IsCorrect(GuessSimilarity(sess[p].round_id, sess[p].guess_text)),
     similarity |-> GuessSimilarity(sess[p].round_id, sess[p].guess_text),
     round_status |-> rounds[sess[p].round_id].status,
     player_score |-> players[sess[p].player_id].score,
     room_status |-> rooms[sess[p].room_id].status,
     target_score |-> rooms[sess[p].room_id].target_score,
     winning_player_id |-> rounds[sess[p].round_id].winning_player_id]

\* 469-483: refresh the guess, the player, the round and the room; respond
SubmitGuessRespond(p) ==
    /\ sess[p].op = "submit_guess" /\ sess[p].pc = "respond"
    /\ Finish(p)
    /\ UNCHANGED tables

\* ------------------------------------------------------------------------
\* skip_round (main.py 486-544)
\* ------------------------------------------------------------------------
\* 493: the room by its code (404 if absent); its row stays in the session
SkipRoundBegin(p, w) ==
    /\ sess[p].op = "idle"
    /\ \E code \in w.path_codes :
          LET room_id == _get_room_or_404(code) IN
          IF room_id = NoId
          THEN UNCHANGED sess
          ELSE sess' = [sess EXCEPT ![p] =
                          [Idle EXCEPT !.op = "skip_round", !.pc = "load_round",
                                       !.room_id = room_id,
                                       !.room_status = rooms[room_id].status]]
    /\ UNCHANGED tables

\* 494-496: "Round not found"
SkipRoundRound(p) ==
    /\ sess[p].op = "skip_round" /\ sess[p].pc = "load_round"
    /\ \E round_id \in RoundIdInputs :
          IF RoundFound(round_id, sess[p].room_id)
          THEN sess' = [sess EXCEPT
                   ![p].pc = "load_player",
                   ![p].round_id = round_id,
                   ![p].round_status = rounds[round_id].status]
          ELSE Finish(p)
    /\ UNCHANGED tables

\* 509-513, 540-544
SkipResponse(skip_votes_count, total_players, round_status) ==
    [skip_votes |-> skip_votes_count, total_players |-> total_players,
     round_status |-> round_status]

\* 498-500: "Player not found in this room".  Players are never deleted, so
\* the lookup is taken together with the statement that follows it.
SkipRoundNoPlayer(p) ==
    /\ sess[p].op = "skip_round" /\ sess[p].pc = "load_player"
    /\ \E player_id \in PlayerIdInputs : ~PlayerFound(player_id, sess[p].room_id)
    /\ Finish(p)
    /\ UNCHANGED tables

\* 502-513: the round the session loaded is over: answer with the counts
TerminalSkipResponse(p) ==
    SkipResponse(SkipVoteCount(sess[p].round_id), PlayerCount(sess[p].room_id),
                 sess[p].round_status)

SkipRoundTerminal(p) ==
    /\ sess[p].op = "skip_round" /\ sess[p].pc = "load_player"
    /\ \E player_id \in PlayerIdInputs : PlayerFound(player_id, sess[p].room_id)
    /\ sess[p].round_status # "playing"
    /\ Finish(p)
    /\ UNCHANGED tables

\* 515-517: has the player already voted to skip the round
ExistingVote(round_id, player_id) ==
    BagIn(SkipVote(round_id, player_id), skip_votes)

SkipRoundExisting(p) ==
    /\ sess[p].op = "skip_round" /\ sess[p].pc = "load_player"
    /\ sess[p].round_status = "playing"
    /\ \E player_id \in PlayerIdInputs :
          /\ PlayerFound(player_id, sess[p].room_id)
          /\ sess' = [sess EXCEPT
                 ![p].pc = IF ExistingVote(sess[p].round_id, player_id)
                           THEN "count_votes" ELSE "insert_vote",
                 ![p].player_id = player_id]
    /\ UNCHANGED tables

\* uq_round_skip (models.py 92): UNIQUE (round_id, player_id)
SkipVoteUnique(round_id, player_id) == ~ExistingVote(round_id, player_id)

\* 519-520: INSERT the vote and commit; the commit expires the loaded rows
SkipRoundInsert(p) ==
    /\ sess[p].op = "skip_round" /\ sess[p].pc = "insert_vote"
    /\ SkipVoteUnique(sess[p].round_id, sess[p].player_id)
    /\ skip_votes' = skip_votes (+) SetToBag({SkipVote(sess[p].round_id, sess[p].player_id)})
    /\ sess' = [sess EXCEPT ![p].pc = "refresh_round", ![p].expired = TRUE]
    /\ UNCHANGED <<songs, rooms, players, rounds, guesses>>

\* 520: the INSERT violates uq_round_skip; the IntegrityError ends the
\* request with a server error
SkipRoundIntegrityError(p) ==
    /\ sess[p].op = "skip_round" /\ sess[p].pc = "insert_vote"
    /\ ~SkipVoteUnique(sess[p].round_id, sess[p].player_id)
    /\ Finish(p)
    /\ UNCHANGED tables

\* 523: round_obj.id on the expired round reloads its row
SkipRoundRefreshRound(p) ==
    /\ sess[p].op = "skip_round" /\ sess[p].pc = "refresh_round"
    /\ sess' = [sess EXCEPT ![p].pc = "count_votes",
                            ![p].round_status = rounds[sess[p].round_id].status]
    /\ UNCHANGED tables

\* 522-524: count the votes of the round
SkipRoundCountVotes(p) ==
    /\ sess[p].op = "skip_round" /\ sess[p].pc = "count_votes"
    /\ sess' = [sess EXCEPT
           ![p].pc = IF sess[p].expired THEN "refresh_room" ELSE "count_players",
           ![p].skip_votes_count = SkipVoteCount(sess[p].round_id)]
    /\ UNCHANGED tables

\* 526: room.id on the expired room reloads its row
SkipRoundRefreshRoom(p) ==
    /\ sess[p].op = "skip_round" /\ sess[p].pc = "refresh_room"
    /\ sess' = [sess EXCEPT ![p].pc = "count_players",
                            ![p].room_status = rooms[sess[p].room_id].status]
    /\ UNCHANGED tables

\* more votes than players are asked for
QuorumAbove(skip_votes_count, total_players, round_status) ==
    skip_votes_count > total_players /\ round_status = "playing"

\* 529: skip_votes_count >= total_players and round_obj.status == "playing"
Quorum(skip_votes_count, total_players, round_status) ==
    skip_votes_count >= total_players /\ round_status = "playing"

\* 525-529: count the players of the room; with a quorum go on to end the
\* round
SkipRoundCountPlayers(p) ==
    /\ sess[p].op = "skip_round" /\ sess[p].pc = "count_players"
    /\ Quorum(sess[p].skip_votes_count, PlayerCount(sess[p].room_id),
              sess[p].round_status)
    /\ sess' = [sess EXCEPT ![p].pc = "commit_skip",
                            ![p].total_players = PlayerCount(sess[p].room_id)]
    /\ UNCHANGED tables

\* 540-544 without a quorum: answer with the counts and the loaded status
PendingSkipResponse(p) ==
    SkipResponse(sess[p].skip_votes_count, PlayerCount(sess[p].room_id),
                 sess[p].round_status)

SkipRoundPending(p) ==
    /\ sess[p].op = "skip_round" /\ sess[p].pc = "count_players"
    /\ ~Quorum(sess[p].skip_votes_count, PlayerCount(sess[p].room_id),
               sess[p].round_status)
    /\ Finish(p)
    /\ UNCHANGED tables

\* 530-536: UPDATE the round to "skipped"; room.status = "waiting" is
\* written only when it differs from the status the session holds
SkipRoundCommit(p) ==
    /\ sess[p].op = "skip_round" /\ sess[p].pc = "commit_skip"
    /\ rounds' = [rounds EXCEPT ![sess[p].round_id].status = "skipped",
                                ![sess[p].round_id].ended = TRUE]
    /\ rooms' = IF sess[p].room_status # "waiting"
                THEN [rooms EXCEPT ![sess[p].room_id].status = "waiting"]
                ELSE rooms
    /\ sess' = [sess EXCEPT ![p] =
                  [Idle EXCEPT !.op = "skip_round", !.pc = "respond",
                               !.room_id = sess[p].room_id,
                               !.round_id = sess[p].round_id,
                               !.player_id = sess[p].player_id,
                               !.skip_votes_count = sess[p].skip_votes_count,
                               !.total_players = sess[p].total_players]]
    /\ UNCHANGED <<songs, players, guesses, skip_votes>>

\* 537-544 after the commit: the status of the refreshed round
CommittedSkipResponse(p) ==
    SkipResponse(sess[p].skip_votes_count, sess[p].total_players,
                 rounds[sess[p].round_id].status)

SkipRoundRespond(p) ==
    /\ sess[p].op = "skip_round" /\ sess[p].pc = "respond"
    /\ Finish(p)
    /\ UNCHANGED tables

\* ------------------------------------------------------------------------
\* Specification
\* ------------------------------------------------------------------------
CreateRoom(p, w) ==
    \/ CreateRoomBegin(p, w)
    \/ CreateRoomCheck(p)
    \/ CreateRoomInsert(p, w)
    \/ CreateRoomHost(p)

JoinRoom(p, w) ==
    \/ JoinRoomBegin(p, w)
    \/ JoinRoomCheck(p, w)
    \/ JoinRoomInsert(p)

StartRound(p, w) ==
    \/ StartRoundBegin(p, w)
    \/ StartRoundActive(p)
    \/ StartRoundSong(p, w)
    \/ StartRoundCommit(p)
    \/ StartRoundRespond(p)

SubmitGuess(p, w) ==
    \/ SubmitGuessBegin(p, w)
    \/ SubmitGuessRound(p)
    \/ SubmitGuessPlayer(p)
    \/ SubmitGuessCommit(p, w)
    \/ SubmitGuessRespond(p)

GetCurrentRound(p, w) ==
    \/ GetCurrentRoundBegin(p, w)
    \/ GetCurrentRoundActive(p)
    \/ GetCurrentRoundRespond(p)

SkipRound(p, w) ==
    \/ SkipRoundBegin(p, w)
    \/ SkipRoundRound(p)
    \/ SkipRoundNoPlayer(p)
    \/ SkipRoundTerminal(p)
    \/ SkipRoundExisting(p)
    \/ SkipRoundInsert(p)
    \/ SkipRoundIntegrityError(p)
    \/ SkipRoundRefreshRound(p)
    \/ SkipRoundCountVotes(p)
    \/ SkipRoundRefreshRoom(p)
    \/ SkipRoundCountPlayers(p)
    \/ SkipRoundPending(p)
    \/ SkipRoundCommit(p)
    \/ SkipRoundRespond(p)

\* One room with its host and a second player, one round, one guess
Next ==
    \E p \in Procs :
        \/ CreateRoom(p, Workload)
        \/ JoinRoom(p, Workload)
        \/ StartRound(p, Workload)
        \/ SubmitGuess(p, Workload)
        \/ SkipRound(p, Workload)

Spec == Init /\ [][Next]_vars

\* One room with its host and a second player, one round, guesses only
RaceNext ==
    \E p \in Procs :
        \/ CreateRoom(p, RaceWorkload)
        \/ JoinRoom(p, RaceWorkload)
        \/ StartRound(p, RaceWorkload)
        \/ SubmitGuess(p, RaceWorkload)

SpecRace == Init /\ [][RaceNext]_vars

\* One room with its host alone, a series of rounds
SeriesNext ==
    \E p \in Procs :
        \/ CreateRoom(p, SeriesWorkload)
        \/ StartRound(p, SeriesWorkload)
        \/ SubmitGuess(p, SeriesWorkload)
        \/ SkipRound(p, SeriesWorkload)

SpecSeries == Init /\ [][SeriesNext]_vars

\* Two rooms with their hosts, or one with a second player; one round
RoomsNext ==
    \E p \in Procs :
        \/ CreateRoom(p, RoomsWorkload)
        \/ JoinRoom(p, RoomsWorkload)
        \/ StartRound(p, RoomsWorkload)
        \/ SubmitGuess(p, RoomsWorkload)
        \/ SkipRound(p, RoomsWorkload)

SpecRooms == Init /\ [][RoomsNext]_vars

\* Two rooms with their hosts and a third player in either, one round
FrameNext ==
    \E p \in Procs :
        \/ CreateRoom(p, FrameWorkload)
        \/ JoinRoom(p, FrameWorkload)
        \/ StartRound(p, FrameWorkload)
        \/ SubmitGuess(p, FrameWorkload)
        \/ SkipRound(p, FrameWorkload)

SpecFrame == Init /\ [][FrameNext]_vars

\* A room with its host and a playing round whose song has any of the
\* titles; one guess with any of the texts
InitJudge ==
    /\ \E anime_title \in JudgeTitles : songs = <<Song(anime_title, "approved")>>
    /\ rooms = <<[Room(<<"A", "B", "C", "D", "E">>, <<"a">>, 1, MaxPlayersCap, 120)
                    EXCEPT !.status = "in_progress"]>>
    /\ players = <<Player(1, <<"a">>, TRUE)>>
    /\ rounds = <<Round(1, 1, 120)>>
    /\ guesses = <<>>
    /\ skip_votes = EmptyBag
    /\ sess = [p \in Procs |-> Idle]

JudgeNext == \E p \in Procs : SubmitGuess(p, JudgeWorkload)

SpecJudge == InitJudge /\ [][JudgeNext]_vars

\* One room with one seat beside its host's, and joins
SeatsNext ==
    \E p \in Procs :
        \/ CreateRoom(p, SeatsWorkload)
        \/ JoinRoom(p, SeatsWorkload)

SpecSeats == Init /\ [][SeatsNext]_vars

\* A room with one player for every request thread and a playing round;
\* nobody joins.  Thread p serves the skip vote of player p, once, and may
\* serve guesses of any player for the round.
VoterName(i) == IF i = 1 THEN <<"a">> ELSE [k \in 1..(i - 1) |-> "b"]

InitVote ==
    /\ songs = Catalog
    /\ rooms = <<[Room(<<"A", "B", "C", "D", "E">>, <<"a">>, 1, MaxPlayersCap, 120)
                    EXCEPT !.status = "in_progress"]>>
    /\ players = [i \in Procs |-> Player(1, VoterName(i), i = 1)]
    /\ rounds = <<Round(1, 1, 120)>>
    /\ guesses = <<>>
    /\ skip_votes = EmptyBag
    /\ sess = [p \in Procs |-> Idle]

\* the skip vote of player p for round 1: the steps of its request
VoteSteps(p) ==
    \/ /\ SkipRoundBegin(p, Workload)
       /\ ~ExistingVote(1, p)
       /\ sess'[p].op = "skip_round"
    \/ /\ SkipRoundRound(p)
       /\ sess'[p].round_id = 1
    \/ SkipRoundTerminal(p)
    \/ /\ SkipRoundExisting(p)
       /\ sess'[p].player_id = p
    \/ SkipRoundInsert(p)
    \/ SkipRoundRefreshRound(p)
    \/ SkipRoundCountVotes(p)
    \/ SkipRoundRefreshRoom(p)
    \/ SkipRoundCountPlayers(p)
    \/ SkipRoundPending(p)
    \/ SkipRoundCommit(p)
    \/ SkipRoundRespond(p)

\* the steps of a guess, once received, but for its commit; the guess names
\* round 1 and a player of the room
GuessLookupSteps(p) ==
    \/ /\ SubmitGuessRound(p)
       /\ sess'[p].op = "idle" => rounds[1].status # "playing"
    \/ /\ SubmitGuessPlayer(p)
       /\ sess'[p].op = "submit_guess"
    \/ SubmitGuessRespond(p)

GuessSteps(p) == GuessLookupSteps(p) \/ SubmitGuessCommit(p, Workload)

\* the guess of p waits for its commit
GuessAtCommit(p) == sess[p].op = "submit_guess" /\ sess[p].pc = "commit"

VoteNext ==
    \E p \in Procs :
        \/ VoteSteps(p)
        \/ SubmitGuessBegin(p, Workload) /\ sess'[p].op = "submit_guess"
        \/ GuessSteps(p)

\* every handler runs to its end, and every player sends its skip vote.
\* The commit of a guess is enabled exactly while the guess waits for it and
\* ends the wait, so that its weak fairness is []<>~GuessAtCommit(p).
SpecVote ==
    /\ InitVote /\ [][VoteNext]_vars
    /\ \A p \in Procs :
          /\ WF_vars(VoteSteps(p))
          /\ WF_vars(GuessLookupSteps(p))
          /\ []<>(~GuessAtCommit(p))

\* One room with its host alone, rounds with auto-selected songs, guesses
\* and polls of the current round
PlayNext ==
    \E p \in Procs :
        \/ CreateRoom(p, PlayWorkload)
        \/ StartRound(p, PlayWorkload)
        \/ GetCurrentRound(p, PlayWorkload)
        \/ SubmitGuess(p, PlayWorkload)

SpecPlay == Init /\ [][PlayNext]_vars

\* ------------------------------------------------------------------------
\* Properties
\* ------------------------------------------------------------------------
RoomIds == DOMAIN rooms
RoundIds == DOMAIN rounds
PlayerIds == DOMAIN players

\* the step of p that commits its guess
GuessCommitStep(p) ==
    sess[p].op = "submit_guess" /\ sess[p].pc = "commit" /\ sess'[p].pc = "respond"

\* the step of p that answers its guess
GuessRespondStep(p) ==
    sess[p].op = "submit_guess" /\ sess[p].pc = "respond" /\ sess'[p].op = "idle"

\* the guess that the step of p commits is correct
CommitsCorrectGuess(p) ==
    GuessCommitStep(p) /\ guesses'[Len(guesses')].is_correct

\* the step of p that commits the end of a round by skip votes
SkipCommitStep(p) ==
    sess[p].op = "skip_round" /\ sess[p].pc = "commit_skip" /\ sess'[p].pc = "respond"

\* the step of p whose INSERT of a skip vote raises
SkipErrorStep(p) ==
    sess[p].op = "skip_round" /\ sess[p].pc = "insert_vote" /\ sess'[p].op = "idle"

\* the step of p that answers a skip vote on a round loaded as over
SkipTerminalStep(p) ==
    /\ sess[p].op = "skip_round" /\ sess[p].pc = "load_player"
    /\ sess[p].round_status # "playing"
    /\ \E player_id \in PlayerIdInputs : PlayerFound(player_id, sess[p].room_id)
    /\ sess'[p].op = "idle"

Terminal == {"completed", "skipped"}

\* C1: of the correct guesses that distinct players submit for a round,
\* only the first to commit is accepted: a correct guess that commits when
\* another player already won the round changes neither a score nor the
\* winner, and every correct guess is answered with the round completed.
C1_ExactlyOneWinner ==
    [][\A p \in Procs :
          /\ (CommitsCorrectGuess(p)
                /\ rounds[sess[p].round_id].winning_player_id
                     \notin {NoId, sess[p].player_id})
             => /\ players' = players
                /\ rounds'[sess[p].round_id].winning_player_id
                     = rounds[sess[p].round_id].winning_player_id
          /\ (GuessRespondStep(p) /\ GuessResponse(p).is_correct)
             => GuessResponse(p).round_status = "completed"]_vars

\* C2: every room has at most one round with status playing.
C2_OnePlayingRound ==
    \A room_id \in RoomIds : Cardinality(PlayingRoundsOf(room_id)) <= 1

\* C3: a round ends in exactly one way: a skipped round has no winner, a
\* completed round has one, and no score is held without a completed round
\* won by its holder.
C3_OneTerminalOutcome ==
    /\ \A r \in RoundIds :
          /\ rounds[r].status = "skipped" => rounds[r].winning_player_id = NoId
          /\ rounds[r].status = "completed" => rounds[r].winning_player_id # NoId
    /\ \A i \in PlayerIds :
          players[i].score > 0 =>
             \E r \in RoundIds : /\ rounds[r].status = "completed"
                                 /\ rounds[r].winning_player_id = i

\* C4: the status of a round changes only from playing to completed, by the
\* commit of a guess, or from playing to skipped, by the commit of a skip;
\* a completed or skipped round keeps its status.
C4_RoundStatusTransitions ==
    [][\A r \in RoundIds :
          rounds'[r].status # rounds[r].status =>
             /\ rounds[r].status = "playing"
             /\ \/ /\ rounds'[r].status = "completed"
                   /\ \E p \in Procs : GuessCommitStep(p) /\ sess[p].round_id = r
                \/ /\ rounds'[r].status = "skipped"
                   /\ \E p \in Procs : SkipCommitStep(p) /\ sess[p].round_id = r]_vars

\* C5: a finished room stays finished, and the winner of a room, once set,
\* is never changed.
C5_FinishedIsTerminal ==
    [][\A i \in RoomIds :
          /\ rooms[i].status = "finished" => rooms'[i].status = "finished"
          /\ rooms[i].winning_player_id # NoId
             => rooms'[i].winning_player_id = rooms[i].winning_player_id]_vars

\* C6: a correct guess committed on a playing round without a winner
\* completes the round with the guesser as winner, adds exactly 1 to the
\* guesser's score, and finishes the room with the guesser as its winner
\* when the new score reaches the target score, else sets the room waiting.
C6_WinningGuessEffects ==
    [][\A p \in Procs :
          LET r == sess[p].round_id
              g == sess[p].player_id
              i == sess[p].room_id
          IN  (/\ CommitsCorrectGuess(p)
               /\ rounds[r].status = "playing"
               /\ rounds[r].winning_player_id = NoId)
              => /\ rounds'[r].status = "completed"
                 /\ rounds'[r].winning_player_id = g
                 /\ players'[g].score = players[g].score + 1
                 /\ \A j \in PlayerIds \ {g} : players'[j] = players[j]
                 /\ IF players'[g].score >= rooms[i].target_score
                    THEN /\ rooms'[i].status = "finished"
                         /\ rooms'[i].winning_player_id = g
                    ELSE rooms'[i].status = "waiting"]_vars

\* no skip request is under way
NoSkipRunning == Running("skip_round") = {}

\* no playing round that was voted on has as many votes as its room players
NoQuorumLeft ==
    \A r \in RoundIds :
       (rounds[r].status = "playing" /\ SkipVoteCount(r) > 0)
       => SkipVoteCount(r) < PlayerCount(rounds[r].room_id)

\* C7: a skip request ends a playing round exactly when the votes cast for
\* the round are as many as the players of the room: the commit that skips
\* the round finds that many votes and sets the room waiting, and once the
\* skip requests have run, no playing round that was voted on has that many.
C7_SkipQuorum ==
    [][/\ \A p \in Procs :
             LET r == sess[p].round_id
                 i == sess[p].room_id
             IN  (SkipCommitStep(p) /\ rounds[r].status = "playing")
                 => /\ SkipVoteCount(r) >= PlayerCount(i)
                    /\ rounds'[r].status = "skipped"
                    /\ rooms'[i].status = "waiting"
       /\ (NoSkipRunning => NoQuorumLeft)']_vars

\* C8: whenever a round becomes skipped, the votes cast for it are at that
\* moment as many as the players of its room, joined players included.
C8_QuorumAtCommit ==
    [][\A r \in RoundIds :
          (rounds[r].status # "skipped" /\ rounds'[r].status = "skipped")
          => SkipVoteCount(r) >= PlayerCount(rounds[r].room_id)]_vars

\* the player of the request of p has a vote for the round of the request
AlreadyVoted(p) ==
    /\ sess[p].op = "skip_round"
    /\ sess[p].player_id # NoId
    /\ ExistingVote(sess[p].round_id, sess[p].player_id)

\* C9: there is at most one skip vote per round and player, and a further
\* vote of a player who has one neither adds a vote nor raises an error.
C9_SkipVoteIdempotent ==
    /\ [](\A v \in BagToSet(skip_votes) : CopiesIn(v, skip_votes) <= 1)
    /\ [][\A p \in Procs :
             /\ AlreadyVoted(p) => (sess'[p] # sess[p] => skip_votes' = skip_votes)
             /\ ~SkipErrorStep(p)]_vars

\* the request of p loads a round that is over
LoadsTerminalRound(p) ==
    /\ sess[p].op = "skip_round" /\ sess[p].pc = "load_round"
    /\ sess'[p].pc = "load_player"
    /\ rounds[sess'[p].round_id].status \in Terminal

\* C10: a skip vote on a round that is over is a no-op: the request goes on
\* to answer without an INSERT or an UPDATE, and its answer holds the
\* current number of votes, number of players and status of the round.
C10_TerminalSkipNoOp ==
    [][\A p \in Procs :
          /\ LoadsTerminalRound(p) => sess'[p].round_status \in Terminal
          /\ (sess[p].op = "skip_round" /\ sess[p].pc = "load_player"
                /\ sess[p].round_status \in Terminal /\ sess'[p] # sess[p])
             => /\ sess'[p].op = "idle"
                /\ UNCHANGED tables
          /\ SkipTerminalStep(p)
             => TerminalSkipResponse(p) =
                   SkipResponse(SkipVoteCount(sess[p].round_id),
                                PlayerCount(sess[p].room_id),
                                rounds[sess[p].round_id].status)]_vars

\* C11: a transition is committed together with its side effects: in every
\* committed state a playing round has fewer skip votes than its room has
\* players, the vote that reaches the quorum and the end of the round being
\* one commit.
C11_QuorumVoteCommittedWithSkip ==
    \A r \in RoundIds :
       rounds[r].status = "playing"
       => SkipVoteCount(r) < PlayerCount(rounds[r].room_id)

\* the request of p is a create_room whose code a room already has
CreatesTakenCode(p) ==
    /\ sess[p].op = "create_room"
    /\ sess[p].pc \in {"check_code", "insert_room"}
    /\ RoomIdsByCode(sess[p].code) # {}

\* C12: no two rooms have the same code, whether the codes were requested
\* (and upper-cased) or generated and whatever the interleaving of the
\* create_room requests; a create_room whose code a room already has ends
\* without a new room or player.
C12_RoomCodesUnique ==
    /\ [](\A i, j \in RoomIds : i # j => rooms[i].code # rooms[j].code)
    /\ [][\A p \in Procs :
             (CreatesTakenCode(p) /\ sess'[p] # sess[p])
             => (sess'[p].op = "idle" /\ UNCHANGED tables)]_vars

\* a create_room that passed its check is about to insert the code that a
\* racing create_room has committed meanwhile
C12_Witness ==
    \E p \in Procs : CreatesTakenCode(p) /\ sess[p].pc = "insert_room"

HostIdsOf(room_id) == {i \in PlayerIdsOf(room_id) : players[i].is_host}

\* C13: in every committed state every room has exactly one host player.
C13_ExactlyOneHost ==
    \A i \in RoomIds : Cardinality(HostIdsOf(i)) = 1

\* the step of p that commits its join
JoinCommitStep(p) ==
    sess[p].op = "join_room" /\ sess[p].pc = "insert_player" /\ sess'[p].op = "idle"

\* the room is finished or full, or a player of it has the nickname but for
\* the case of its letters
JoinRefused(room_id, nickname) ==
    \/ rooms[room_id].status = "finished"
    \/ PlayerCount(room_id) >= rooms[room_id].max_players
    \/ \E i \in PlayerIdsOf(room_id) : Lower(players[i].nickname) = Lower(nickname)

\* C14: a join_room that ends at one of its checks changes nothing; one
\* that reaches its commit leaves the rooms as they are, adds no player when
\* the room is finished or full or the nickname is taken case-insensitively,
\* and otherwise adds exactly one player of the room, not a host, score 0.
C14_JoinRoomOutcome ==
    [][\A p \in Procs :
          /\ (sess[p].op = "join_room" /\ sess'[p] # sess[p] /\ ~JoinCommitStep(p))
             => UNCHANGED tables
          /\ JoinCommitStep(p)
             => /\ UNCHANGED <<songs, rooms, rounds, guesses, skip_votes>>
                /\ players' =
                     IF JoinRefused(sess[p].room_id, sess[p].nickname)
                     THEN players
                     ELSE Append(players,
                            [room_id |-> sess[p].room_id, nickname |-> sess[p].nickname,
                             score |-> 0, is_host |-> FALSE])]_vars

\* C15: no two players of a room have nicknames that are equal but for the
\* case of their letters.
C15_NicknamesUniqueIgnoringCase ==
    \A i, j \in PlayerIds :
       (i # j /\ players[i].room_id = players[j].room_id)
       => Lower(players[i].nickname) # Lower(players[j].nickname)

\* the step of p that commits its new round
StartCommitStep(p) ==
    sess[p].op = "start_round" /\ sess[p].pc = "insert_round" /\ sess'[p].pc = "respond"

\* C16: a start_round that ends at one of its checks changes nothing; one
\* that commits does so in a room with players and without a playing round,
\* adds exactly one round, playing, of the room, with an approved song and
\* the requested or the room's duration, and sets the room in_progress.
C16_StartRoundOutcome ==
    [][\A p \in Procs :
          LET i == sess[p].room_id
              new == rounds'[Len(rounds')]
          IN
          /\ (sess[p].op = "start_round" /\ sess'[p] # sess[p] /\ ~StartCommitStep(p))
             => UNCHANGED tables
          /\ StartCommitStep(p)
             => /\ PlayingRoundsOf(i) = {}
                /\ PlayerCount(i) > 0
                /\ Len(rounds') = Len(rounds) + 1
                /\ SubSeq(rounds', 1, Len(rounds)) = rounds
                /\ new.room_id = i /\ new.status = "playing"
                /\ new.song_id \in ApprovedSongs
                /\ new.duration_seconds
                     \in (RoundDurations \ {0}) \cup {rooms[i].round_duration_seconds}
                /\ rooms'[i].status = "in_progress"
                /\ UNCHANGED <<songs, players, guesses, skip_votes>>]_vars

\* the songs of the rounds of the room of round r that came before r
SongsUsedBefore(r) ==
    {rounds[j].song_id :
        j \in {k \in RoundIds : k < r /\ rounds[k].room_id = rounds[r].room_id}}

\* C17: where every round has an auto-selected song, the song of a round
\* is approved, and it is the song of an earlier round of the room only
\* when the earlier rounds of the room have used every approved song.
C17_AutoSelectionNoRepeat ==
    \A r \in RoundIds :
       /\ rounds[r].song_id \in ApprovedSongs
       /\ rounds[r].song_id \in SongsUsedBefore(r)
          => ApprovedSongs \subseteq SongsUsedBefore(r)

\* the round states a start_round or a get_current_round that is about to
\* answer may send: the one asked for with reveal_answer, the one without
RespondingStart == {p \in Procs : sess[p].op = "start_round" /\ sess[p].pc = "respond"}

RespondingCurrent ==
    {p \in Procs : sess[p].op = "get_current_round" /\ sess[p].pc = "respond"}

\* C18: a round state sent by start_round or get_current_round holds the
\* anime_title only if the caller asked for reveal_answer or the round is
\* not playing, both by the status the response carries and by the stored
\* status of the round; without reveal_answer the answer of a playing round
\* is never sent.
C18_AnswerHiddenWhilePlaying ==
    /\ \A p \in RespondingStart : \A reveal_answer \in BOOLEAN :
          StartRoundResponse(p, reveal_answer).anime_title # <<>>
             => \/ reveal_answer
                \/ /\ StartRoundResponse(p, reveal_answer).status # "playing"
                   /\ rounds[sess[p].round_id].status # "playing"
    /\ \A p \in RespondingCurrent : \A reveal_answer \in BOOLEAN :
          CurrentRoundResponse(p, reveal_answer).anime_title # <<>>
             => \/ reveal_answer
                \/ /\ CurrentRoundResponse(p, reveal_answer).status # "playing"
                   /\ rounds[sess[p].round_id].status # "playing"

\* a get_current_round answers for a round that is playing: the answer is
\* sent with reveal_answer and withheld without, while a start_round answers
\* for a round already won, whose answer it sends unasked
C18_Witness ==
    /\ \E p \in RespondingCurrent :
          /\ rounds[sess[p].round_id].status = "playing"
          /\ CurrentRoundResponse(p, FALSE).anime_title = <<>>
          /\ CurrentRoundResponse(p, TRUE).anime_title # <<>>
    /\ \E p \in RespondingStart :
          /\ rounds[sess[p].round_id].status = "completed"
          /\ StartRoundResponse(p, FALSE).anime_title # <<>>

\* C19: the score of a player is never negative and never goes down, and a
\* step changes it only when the step commits a correct guess of that
\* player that wins the round, and then by exactly one; every other step
\* leaves it as it is.
C19_ScoreGrowsOnlyByWins ==
    /\ [](\A i \in PlayerIds : players[i].score >= 0)
    /\ [][\A i \in PlayerIds :
            /\ players'[i].score >= players[i].score
            /\ players'[i].score # players[i].score
               => /\ players'[i].score = players[i].score + 1
                  /\ \E p \in Procs :
                        /\ CommitsCorrectGuess(p)
                        /\ sess[p].player_id = i
                        /\ rounds'[sess[p].round_id].winning_player_id = i]_vars

\* the operations that are addressed to a room that exists
RoomOps == {"join_room", "start_round", "submit_guess", "skip_round"}

\* the round, the player exists and belongs to another room than room_id
ForeignRound(round_id, room_id) ==
    round_id \in DOMAIN rounds /\ rounds[round_id].room_id # room_id

ForeignPlayer(player_id, room_id) ==
    player_id \in DOMAIN players /\ players[player_id].room_id # room_id

\* a step leaves every row that is not of room i as it is, and every row
\* it adds is of room i
OtherRoomsUntouched(i) ==
    /\ Len(rooms') = Len(rooms)
    /\ \A j \in RoomIds \ {i} : rooms'[j] = rooms[j]
    /\ Len(players') >= Len(players)
    /\ \A k \in DOMAIN players' :
          IF k \in PlayerIds
          THEN players[k].room_id # i => players'[k] = players[k]
          ELSE players'[k].room_id = i
    /\ Len(rounds') >= Len(rounds)
    /\ \A k \in DOMAIN rounds' :
          IF k \in RoundIds
          THEN rounds[k].room_id # i => rounds'[k] = rounds[k]
          ELSE rounds'[k].room_id = i
    /\ Len(guesses') >= Len(guesses)
    /\ \A k \in DOMAIN guesses' :
          IF k \in DOMAIN guesses
          THEN guesses'[k] = guesses[k]
          ELSE /\ rounds'[guesses'[k].round_id].room_id = i
               /\ players'[guesses'[k].player_id].room_id = i
    /\ \A v \in BagToSet(skip_votes) \cup BagToSet(skip_votes') :
          CopiesIn(v, skip_votes') # CopiesIn(v, skip_votes)
             => /\ rounds'[v.round_id].room_id = i
                /\ players'[v.player_id].room_id = i

\* every step of an operation addressed to a room touches that room only,
\* and the steps that look up the round and the player touch nothing
RoomsFrame ==
    \A p \in Procs :
       (sess[p].op \in RoomOps /\ sess'[p] # sess[p])
          => /\ OtherRoomsUntouched(sess[p].room_id)
             /\ sess[p].pc \in {"load_round", "load_player"} => UNCHANGED tables

\* a skip vote that names a round or a player of another room, and a guess
\* whose player is looked up and is of another room, get "not found"
ForeignSkipNotFound ==
    \A p \in Procs :
       /\ (sess[p].op = "skip_round" /\ sess[p].pc = "load_round")
          => \A round_id \in RoundIdInputs :
                ForeignRound(round_id, sess[p].room_id)
                   => ~RoundFound(round_id, sess[p].room_id)
       /\ (sess[p].op \in {"skip_round", "submit_guess"} /\ sess[p].pc = "load_player")
          => \A player_id \in PlayerIdInputs :
                ForeignPlayer(player_id, sess[p].room_id)
                   => ~PlayerFound(player_id, sess[p].room_id)

\* the guesses that are about to look up their round
LoadingGuessRound == {p \in Procs : sess[p].op = "submit_guess" /\ sess[p].pc = "load_round"}

\* C20: a step of join_room, start_round, submit_guess or skip_round changes
\* no row of another room than the one it is addressed to, and a guess or a
\* skip vote that names a round or a player of another room is rejected as
\* not found, by no other error, and changes nothing.
C20_RoomsIndependent ==
    /\ [][RoomsFrame]_vars
    /\ []ForeignSkipNotFound
    /\ [](\A p \in LoadingGuessRound :
            \A round_id \in RoundIdInputs, player_id \in PlayerIdInputs :
               /\ ForeignRound(round_id, sess[p].room_id)
                  => GuessRoundError(round_id, sess[p].room_id) = "Round not found"
               /\ ForeignPlayer(player_id, sess[p].room_id)
                  => GuessRoundError(round_id, sess[p].room_id)
                        \in {"", "Round not found"})

\* C20, amended: as C20, but a guess that names a player of another room
\* and a round of the addressed room that is not playing is rejected as
\* "Round is not accepting guesses", before its player is looked up.
C20_RoomsIndependentAmended ==
    /\ [][RoomsFrame]_vars
    /\ []ForeignSkipNotFound
    /\ [](\A p \in LoadingGuessRound :
            \A round_id \in RoundIdInputs, player_id \in PlayerIdInputs :
               /\ ForeignRound(round_id, sess[p].room_id)
                  => GuessRoundError(round_id, sess[p].room_id) = "Round not found"
               /\ ForeignPlayer(player_id, sess[p].room_id)
                  => GuessRoundError(round_id, sess[p].room_id)
                        = IF ~RoundFound(round_id, sess[p].room_id)
                          THEN "Round not found"
                          ELSE IF rounds[round_id].status # "playing"
                          THEN "Round is not accepting guesses"
                          ELSE "")

\* two rooms, one of them with a joined player; a guess addressed to one
\* room can name the round of the other, and a skip vote that has found its
\* round can name a player of the other room
C20_Witness ==
    /\ Len(rooms) = 2 /\ Len(players) = 3
    /\ \E p \in LoadingGuessRound :
          \E round_id \in RoundIdInputs : ForeignRound(round_id, sess[p].room_id)
    /\ \E p \in Procs :
          /\ sess[p].op = "skip_round" /\ sess[p].pc = "load_player"
          /\ \E player_id \in PlayerIdInputs : ForeignPlayer(player_id, sess[p].room_id)

\* the guesses that passed the checks of the round and the player
CommittingGuesses == {p \in Procs : sess[p].op = "submit_guess" /\ sess[p].pc = "commit"}

\* C21: a guess that passed the checks of its round and its player adds, at
\* its commit, exactly one Guess record, of that round and that player,
\* whatever its verdict and whoever has won the round meanwhile; no step of
\* any operation changes or removes a Guess record or adds more than one.
C21_EveryGuessPersisted ==
    [][/\ Len(guesses') \in {Len(guesses), Len(guesses) + 1}
       /\ SubSeq(guesses', 1, Len(guesses)) = guesses
       /\ \A p \in CommittingGuesses :
             sess'[p] # sess[p]
                => /\ GuessCommitStep(p)
                   /\ Len(guesses') = Len(guesses) + 1
                   /\ guesses'[Len(guesses')].round_id = sess[p].round_id
                   /\ guesses'[Len(guesses')].player_id = sess[p].player_id
       /\ Len(guesses') # Len(guesses)
             => \E p \in CommittingGuesses : GuessCommitStep(p)]_vars

\* a correct guess is on record and has won its round, and another guess
\* that loaded the round before that is about to be committed
C21_Witness ==
    /\ \E k \in DOMAIN guesses : guesses[k].is_correct
    /\ \E p \in CommittingGuesses :
          /\ rounds[sess[p].round_id].winning_player_id # NoId
          /\ sess[p].round_winner = NoId

\* the words of a text: its longest runs without whitespace, lower-cased
RECURSIVE Words(_)
Words(s) ==
    IF LStrip(s) = <<>> THEN <<>>
    ELSE LET t == LStrip(s)
             n == SetMin({k \in 1..Len(t) : k = Len(t) \/ IsSpace(t[k + 1])})
         IN  <<Lower(SubSeq(t, 1, n))>> \o Words(SubSeq(t, n + 1, Len(t)))

\* the words joined by single spaces
RECURSIVE JoinWords(_)
JoinWords(ws) ==
    IF ws = <<>> THEN <<>>
    ELSE IF Len(ws) = 1 THEN ws[1]
    ELSE ws[1] \o <<" ">> \o JoinWords(Tail(ws))

\* the answer of the round of the guess of p
AnswerOf(p) == songs[rounds[sess[p].round_id].song_id].anime_title

\* what the commit of the guess of p records, but for the last clause: the
\* verdict is "similarity >= 0.80" on the similarity of the two normalized
\* texts, the normal form is the lower-cased words joined by single spaces,
\* texts with one normal form get one verdict, and an empty normal form is
\* never correct
JudgedByNormalForm(p) ==
    LET guess == guesses'[Len(guesses')]
        normalized_answer == _normalize_string(AnswerOf(p))
        normalized_guess == _normalize_string(sess'[p].guess_text)
    IN  /\ normalized_answer = JoinWords(Words(AnswerOf(p)))
        /\ normalized_guess = JoinWords(Words(sess'[p].guess_text))
        /\ guess.similarity = compute_similarity(normalized_answer, normalized_guess)
        /\ guess.is_correct <=> 5 * guess.similarity[1] >= 4 * guess.similarity[2]
        /\ \A other \in JudgeGuessTexts :
              JoinWords(Words(other)) = normalized_guess
                 => IsCorrect(compute_similarity(AnswerOf(p), other)) = guess.is_correct
        /\ normalized_guess = <<>> => ~guess.is_correct

\* C22: the guess that a commit records is correct exactly when the
\* similarity of the normalized answer and the normalized guess is at
\* least 0.80; normalization collapses whitespace runs, trims and
\* lower-cases; texts with the same normal form get the same verdict, a
\* guess with the normal form of the answer is correct, and a guess with an
\* empty normal form is not.
C22_VerdictByNormalForm ==
    [][\A p \in Procs :
          GuessCommitStep(p)
             => /\ JudgedByNormalForm(p)
                /\ _normalize_string(sess'[p].guess_text) = _normalize_string(AnswerOf(p))
                      => guesses'[Len(guesses')].is_correct]_vars

\* C22, amended: as C22, but a guess with the normal form of the answer is
\* correct only when that normal form is not empty; an answer that is empty
\* has no correct guess.
C22_VerdictByNormalFormAmended ==
    [][\A p \in Procs :
          GuessCommitStep(p)
             => /\ JudgedByNormalForm(p)
                /\ (/\ _normalize_string(sess'[p].guess_text) = _normalize_string(AnswerOf(p))
                    /\ _normalize_string(AnswerOf(p)) # <<>>)
                      => guesses'[Len(guesses')].is_correct
                /\ _normalize_string(AnswerOf(p)) = <<>>
                      => ~guesses'[Len(guesses')].is_correct]_vars

\* a guess is on record with a similarity of exactly 0.80, judged correct,
\* from a text that is not in normal form
C22_Witness ==
    \E p \in Procs :
       /\ sess[p].op = "submit_guess" /\ sess[p].pc = "respond"
       /\ guesses[Len(guesses)].similarity = <<4, 5>>
       /\ guesses[Len(guesses)].is_correct
       /\ sess[p].guess_text # _normalize_string(sess[p].guess_text)

\* C23: the players of a room are never more than its max_players, and
\* max_players is never more than 8, also when several join_room requests
\* for the last free seat of a room run at once.
C23_RoomNeverOverfull ==
    \A i \in RoomIds :
       /\ PlayerCount(i) <= rooms[i].max_players
       /\ rooms[i].max_players <= 8

\* C24: a room is in_progress exactly when it has a playing round; so a
\* room whose last playing round has ended is waiting or finished, and a
\* waiting or finished room has no playing round.
C24_InProgressIffPlaying ==
    \A i \in RoomIds :
       /\ rooms[i].status \in {"waiting", "in_progress", "finished"}
       /\ rooms[i].status = "in_progress" <=> PlayingRoundsOf(i) # {}

\* C25: a round has a winner exactly when it is completed, it has its
\* ended_at exactly when it is completed or skipped, and its winner is a
\* player of its room.
C25_WinnerIffCompleted ==
    \A r \in RoundIds :
       /\ rounds[r].winning_player_id # NoId <=> rounds[r].status = "completed"
       /\ rounds[r].ended <=> rounds[r].status \in {"completed", "skipped"}
       /\ rounds[r].winning_player_id # NoId
             => /\ rounds[r].winning_player_id \in PlayerIds
                /\ players[rounds[r].winning_player_id].room_id = rounds[r].room_id

\* the sum of the scores of the players in S
RECURSIVE ScoreSum(_)
ScoreSum(S) ==
    IF S = {} THEN 0
    ELSE LET i == CHOOSE x \in S : TRUE IN players[i].score + ScoreSum(S \ {i})

CompletedRoundsOf(room_id) ==
    {r \in RoundIds : rounds[r].room_id = room_id /\ rounds[r].status = "completed"}

RoundsWonBy(player_id) == {r \in RoundIds : rounds[r].winning_player_id = player_id}

\* C26: in every room the scores of the players add up to the number of
\* completed rounds of the room, and the score of every player is the
\* number of rounds that have the player as winner.
C26_ScoresCountWins ==
    /\ \A i \in RoomIds :
          ScoreSum(PlayerIdsOf(i)) = Cardinality(CompletedRoundsOf(i))
    /\ \A k \in PlayerIds : players[k].score = Cardinality(RoundsWonBy(k))

\* C27: when nobody joins and the skip vote of every player of the room is
\* served to its end, a playing round does not stay playing: it ends
\* skipped, or completed by a correct guess made meanwhile.
C27_SkipVotesEndRound ==
    (rounds[1].status = "playing")
       ~> (rounds[1].status \in {"skipped", "completed"})

\* the round was skipped with the vote of every player, and no guess won it
C27_Witness ==
    /\ rounds[1].status = "skipped"
    /\ rounds[1].winning_player_id = NoId
    /\ SkipVoteCount(1) = PlayerCount(1)
    /\ PlayerCount(1) = NProcs

====
